---------------------------- MODULE Spec2Model ----------------------------
(***************************************************************************)
(* Transcript acquisition of boxed-dev/remalt: the Flask service           *)
(* (src/transcript_api.py) and the serverless handler                      *)
(* (src/api/transcript_api.py).  Both keep a process-wide transcript_cache *)
(* with a 24 hour TTL and fetch caption tracks from the upstream provider  *)
(* inside a bounded retry loop with exponential backoff.                   *)
(*                                                                         *)
(* Upstream calls (list_transcripts, Transcript.fetch, ytt_api.fetch) are  *)
(* steps of their own: each returns a value or raises one of the error     *)
(* kinds the code distinguishes.  time.time() is the variable now.         *)
(***************************************************************************)
EXTENDS Integers, Sequences, FiniteSets, TLC

(***************************************************************************)
(* Program constants                                                       *)
(***************************************************************************)
CACHE_TTL == 24 * 60 * 60

max_retries == 3

initial_delay == 1

max_delay == 10

backoff_multiplier == 2

(***************************************************************************)
(* Bounds of the model                                                     *)
(***************************************************************************)
\* longest track listing the upstream returns
MaxTracks == 2

(***************************************************************************)
(* Values                                                                  *)
(***************************************************************************)
Variants == {"flask", "serverless"}

Reqs == {1, 2}

\* the request slots of a host that serves one transcribe request at a time
Serial == {1}

None == "None"

VideoIds == {"AAAAAAAAAAA", "BBBBBBBBBBB"}

\* A url is a sequence of pieces of text; the pieces are the units the
\* patterns of extract_video_id tell apart.
UrlShapes ==
    {"youtube.com/watch?v=", "youtu.be/", "youtube.com/embed/",
     "youtube.com/shorts/"}

\* the characters outside the capture class [^&\n?#], each a piece of its own
Delims == {"&", "?", "#", "\n"}

\* tokens made of [a-zA-Z0-9_-] only, with their lengths
WordLen == [t \in VideoIds \cup {"short", "x"} |->
               IF t \in VideoIds THEN 11 ELSE IF t = "short" THEN 5 ELSE 1]

TokenLen(t) == IF t \in DOMAIN WordLen THEN WordLen[t] ELSE 0

Prefixes == {<<>>, <<"https://", "www.">>}

\* what follows the identifier in a url: nothing, or a part opened by & ? #
Trailers == {<<>>, <<"&", "t=1">>, <<"?", "t=1">>, <<"#", "t=1">>}

UrlTokens == VideoIds \cup {"short"}

\* the four url shapes around a token, with or without scheme and www
ShapedUrls ==
    {p \o <<h, x>> \o t :
        p \in Prefixes, h \in UrlShapes, x \in UrlTokens, t \in Trailers}

BareUrls == {<<x>> : x \in UrlTokens}

\* other inputs: the empty string, a foreign url, a token behind a scheme, a
\* token run on by a further character, a url inside the query of a url, a
\* short link written with a backslash, a token with a newline after it, a
\* short link without a token
OddUrls ==
    {<<>>, <<"example.com/">>, <<"https://", "AAAAAAAAAAA">>,
     <<"youtu.be/", "AAAAAAAAAAA", "x">>,
     <<"youtu.be/", "AAAAAAAAAAA", "?", "u=", "youtube.com/watch?v=",
       "BBBBBBBBBBB">>,
     <<"youtu\\.be/", "AAAAAAAAAAA">>,
     <<"AAAAAAAAAAA", "\n">>,
     <<"youtu.be/", "?", "t=1">>}

Urls == ShapedUrls \cup BareUrls \cup OddUrls

\* request bodies: JSON without a 'url' key (or no body at all), a body that
\* is not JSON, or JSON with a url
NoUrl == <<None>>

NotJson == <<"{">>

Bodies == {NoUrl, NotJson} \cup Urls

Retryable == {"RequestBlocked", "YouTubeRequestFailed"}

Terminal == {"TranscriptsDisabled", "NoTranscriptFound", "VideoUnavailable"}

\* two of the errors the code does not name
Unclassified == {"TypeError", "ConnectionError"}

ErrorKinds == Retryable \cup Terminal \cup Unclassified

Languages == {"en", "en-GB", "de"}

Tracks == [language_code : Languages, is_generated : BOOLEAN]

NoTrack == [language_code |-> None, is_generated |-> FALSE]


RECURSIVE SeqsUpTo(_, _)
SeqsUpTo(S, n) ==
    IF n = 0 THEN {<<>>}
    ELSE LET shorter == SeqsUpTo(S, n - 1)
         IN  shorter \cup {Append(s, x) : s \in shorter, x \in S}

NoDup(s) == \A i, j \in 1..Len(s) : i # j => s[i] # s[j]

\* what list_transcripts can return: at most one track per (language, kind)
Listings == {s \in SeqsUpTo(Tracks, MaxTracks) : NoDup(s)}

\* what Transcript.fetch / ytt_api.fetch can return: the texts of the snippets
SnippetSeqs == {<<>>, <<"a">>, <<"a", "b">>}

\* the values time.time() takes: a start, and the instants around one TTL later
Instants == {0, CACHE_TTL - 1, CACHE_TTL, CACHE_TTL + 1}

Min(a, b) == IF a < b THEN a ELSE b

RECURSIVE Pow(_, _)
Pow(b, n) == IF n = 0 THEN 1 ELSE b * Pow(b, n - 1)

(***************************************************************************)
(* Pure functions of the code                                              *)
(***************************************************************************)
\* every error but the terminal ones retried (a catch-all retry clause)
IsRetryable_catchAll(e) == e \notin Terminal

\* VideoUnavailable listed with the retryable errors
IsRetryable_orUnavailable(e) == e \in Retryable \cup {"VideoUnavailable"}

IsRetryable(e) == e \in Retryable

IsTerminal(e) == e \in Terminal

\* the part of a piece before its first character of Delims
Clean(p) ==
    IF p \in Delims THEN ""
    ELSE IF p = "youtube.com/watch?v=" THEN "youtube.com/watch"
    ELSE p

\* the capture runs to the end of the url, the delimiters included
RECURSIVE Capture_toEnd(_, _)
Capture_toEnd(url, i) ==
    IF i > Len(url) THEN "" ELSE url[i] \o Capture_toEnd(url, i + 1)

\* the text ([^&\n?#]+) takes from piece i on: greedy, up to the first
\* delimiter or the end of the url
RECURSIVE Capture(_, _)
Capture(url, i) ==
    IF i > Len(url) THEN ""
    ELSE IF Clean(url[i]) # url[i] THEN Clean(url[i])
    ELSE url[i] \o Capture(url, i + 1)

RECURSIVE WordsLen(_)
WordsLen(ws) == IF ws = <<>> THEN 0 ELSE TokenLen(Head(ws)) + WordsLen(Tail(ws))

RECURSIVE Concat(_)
Concat(ws) == IF ws = <<>> THEN "" ELSE Head(ws) \o Concat(Tail(ws))

\* re.search(pattern, url) and match.group(1), None without a match.  A url
\* pattern (?:text)(capture) matches at the leftmost place where the text is
\* followed by at least one captured character; ^([a-zA-Z0-9_-]{11})$ matches
\* a url that is 11 such characters, a newline at its end allowed by $.
Search(p, url) ==
    IF p = "bare"
    THEN LET n    == Len(url)
             word == IF n > 0 /\ url[n] = "\n" THEN SubSeq(url, 1, n - 1)
                     ELSE url
         IN  IF (\A i \in 1..Len(word) : word[i] \in DOMAIN WordLen)
                /\ WordsLen(word) = 11
             THEN Concat(word) ELSE None
    ELSE LET hits == {i \in 1..Len(url) :
                         url[i] = p /\ Capture(url, i + 1) # ""}
         IN  IF hits = {} THEN None
             ELSE Capture(url, (CHOOSE i \in hits : \A j \in hits : i <= j) + 1)

\* The patterns in their order, each url pattern named by a text it matches.
\* The Flask patterns escape '.' and '?' once (\. \?).  The serverless ones
\* are raw strings with a doubled backslash (\\. \\?): they ask for a
\* backslash, then any character, where the Flask ones ask for a dot, and
\* for an optional backslash where the Flask one asks for '?'.
patterns(v) ==
    IF v = "flask"
    THEN <<"youtube.com/watch?v=", "youtu.be/", "youtube.com/embed/",
           "youtube.com/shorts/", "bare">>
    ELSE <<"youtube\\.com/watchv=", "youtu\\.be/", "youtube\\.com/embed/",
           "youtube\\.com/shorts/", "bare">>

\* for pattern in patterns: the first pattern that matches gives the result
RECURSIVE FirstMatch(_, _)
FirstMatch(ps, url) ==
    IF ps = <<>> THEN None
    ELSE IF Search(Head(ps), url) # None THEN Search(Head(ps), url)
    ELSE FirstMatch(Tail(ps), url)

extract_video_id(v, url) == FirstMatch(patterns(v), url)

NoData == [transcript |-> "", language |-> None, videoId |-> None, cached |-> FALSE]

EmptyCache == [k \in {} |-> [data |-> NoData, timestamp |-> 0]]

\* the comparison of the age with the TTL made non-strict
get_cached_transcript_nonStrict(cache, vid, t) ==
    IF vid \in DOMAIN cache /\ t - cache[vid].timestamp <= CACHE_TTL
    THEN cache[vid].data
    ELSE NoData

get_cached_transcript(cache, vid, t) ==
    IF vid \in DOMAIN cache /\ t - cache[vid].timestamp < CACHE_TTL
    THEN cache[vid].data
    ELSE NoData

\* an entry already there is kept (setdefault instead of assignment)
cache_transcript_keepsOld(cache, vid, data, t) ==
    [k \in DOMAIN cache \cup {vid} |->
        IF k \in DOMAIN cache THEN cache[k] ELSE [data |-> data, timestamp |-> t]]

cache_transcript(cache, vid, data, t) ==
    [k \in DOMAIN cache \cup {vid} |->
        IF k = vid THEN [data |-> data, timestamp |-> t] ELSE cache[k]]

\* a linear schedule: initial_delay * (attempt + 1)
Delay_linear(a) == Min(initial_delay * (a + 1), max_delay)

\* the schedule without its cap
Delay_uncapped(a) == initial_delay * Pow(backoff_multiplier, a)

\* delay = min(initial_delay * backoff_multiplier ** attempt, max_delay)
Delay(a) == Min(initial_delay * Pow(backoff_multiplier, a), max_delay)

HasTrack(list, t) == \E i \in 1..Len(list) : list[i] = t

\* TranscriptList.find_transcript: the first requested language code that has
\* a track, the manually created one before the generated one
RECURSIVE find_transcript(_, _)
find_transcript(list, codes) ==
    IF codes = <<>> THEN NoTrack
    ELSE LET manual == [language_code |-> Head(codes), is_generated |-> FALSE]
             auto   == [language_code |-> Head(codes), is_generated |-> TRUE]
         IN  IF HasTrack(list, manual) THEN manual
             ELSE IF HasTrack(list, auto) THEN auto
             ELSE find_transcript(list, Tail(codes))

IsManual(t) == ~t.is_generated

\* the last resort (any track at all) left out
SelectTranscript_noAny(list) ==
    LET english == find_transcript(list, <<"en", "en-US", "en-GB">>)
        manual_transcripts == SelectSeq(list, IsManual)
    IN  IF english # NoTrack THEN english
        ELSE IF manual_transcripts # <<>> THEN manual_transcripts[1]
        ELSE NoTrack

\* English first, then any manually created track, then any track
SelectTranscript(list) ==
    LET english == find_transcript(list, <<"en", "en-US", "en-GB">>)
        manual_transcripts == SelectSeq(list, IsManual)
    IN  IF english # NoTrack THEN english
        ELSE IF manual_transcripts # <<>> THEN manual_transcripts[1]
        ELSE IF list # <<>> THEN list[1]
        ELSE NoTrack

\* the texts run together without a separator
RECURSIVE Join_noSeparator(_)
Join_noSeparator(texts) ==
    IF texts = <<>> THEN "" ELSE texts[1] \o Join_noSeparator(Tail(texts))

\* ' '.join(texts)
RECURSIVE Join(_)
Join(texts) ==
    IF texts = <<>> THEN ""
    ELSE IF Len(texts) = 1 THEN texts[1]
    ELSE texts[1] \o " " \o Join(Tail(texts))

\* the result dict transcribe / do_POST builds and caches
FreshResult(vid, text, lang) ==
    [transcript |-> text, language |-> lang, videoId |-> vid, cached |-> FALSE]

Ok(data) ==
    [status |-> 200, transcript |-> data.transcript, language |-> data.language,
     videoId |-> data.videoId, cached |-> data.cached]

\* {**cached, 'cached': True}
Hit(data) == Ok([data EXCEPT !.cached = TRUE])

\* the identifier left out of the response body
Failure_noVideoId(status, error, type, vid) ==
    [status |-> status, error |-> error, error_type |-> type, videoId |-> None]

Failure(status, error, type, vid) ==
    [status |-> status, error |-> error, error_type |-> type, videoId |-> vid]

\* a body that is not JSON: request.get_json() raises BadRequest, which the
\* outer except of transcribe answers with 500; _parse_request returns None
ParseError(v) ==
    IF v = "flask" THEN Failure(500, "400 Bad Request", None, None)
    ELSE Failure(400, "URL is required", None, None)

\* the clause for RequestBlocked / YouTubeRequestFailed left out: they fall
\* to the last clause
ErrorResponse_noRateLimit(v, e, vid) ==
    IF e \in {"TranscriptsDisabled", "NoTranscriptFound"}
    THEN Failure(404, "No captions available",
                 IF v = "flask" THEN e ELSE "NoTranscriptFound", vid)
    ELSE IF e = "VideoUnavailable"
    THEN Failure(404, "Video unavailable", "VideoUnavailable", vid)
    ELSE Failure(500, "Transcription failed", e, vid)

\* the except clauses of transcribe / do_POST around fetch_transcript_with_retry
ErrorResponse(v, e, vid) ==
    IF e \in {"TranscriptsDisabled", "NoTranscriptFound"}
    THEN Failure(404, "No captions available",
                 IF v = "flask" THEN e ELSE "NoTranscriptFound", vid)
    ELSE IF e = "VideoUnavailable"
    THEN Failure(404, "Video unavailable", "VideoUnavailable", vid)
    ELSE IF e \in Retryable
    THEN Failure(429, "Rate limited or request failed", e, vid)
    ELSE Failure(500, "Transcription failed", e, vid)

(***************************************************************************)
(* State                                                                   *)
(***************************************************************************)
VARIABLES
    variant,          \* which of the two services runs
    now,              \* time.time()
    transcript_cache, \* video id -> [data, timestamp]
    req,              \* per request slot, the locals of transcribe / do_POST
    cleared,          \* count reported by the last clear-cache, -1 before
    wiped,            \* ids removed by the last clear and not stored since
    yt,               \* the run of youtube_deepgram_transcriber.py
    health,           \* cache_size reported by the last health probe, -1 before
    clearing,         \* the locals of a clear-cache that runs beside requests
    ig                \* the Instagram service: its keys and its request

vars == <<variant, now, transcript_cache, req, cleared, wiped, yt, health,
         clearing, ig>>

\* the variables of the transcript services
service == <<variant, now, transcript_cache, req, cleared, wiped, health,
            clearing>>

NoResponse == [status |-> 0]

\* pc: start, loop (inside download_youtube_audio), downloaded, exited
\* po_token, visitor_data, cookies: YT_PO_TOKEN and YT_VISITOR_DATA are set,
\* COOKIES_FILE exists;
\* strategies: the list download_youtube_audio built; tried, outcomes: the
\* names of the strategies run so far and how each ended;
\* last_error: what the last failed strategy left: its kind and, for a
\* CalledProcessError, the marks found in its stderr;
\* exit: the exit status of the process, -1 while it runs
NoError == [kind |-> None, stderr |-> {}]

NotStarted ==
    [pc |-> "start", po_token |-> FALSE, visitor_data |-> FALSE,
     cookies |-> FALSE, strategies |-> <<>>, tried |-> <<>>,
     outcomes |-> <<>>, last_error |-> NoError, exit |-> -1]

\* pc: idle, list, fetch, direct, sleep, done, and between the fetch and the
\* answer of a request that runs beside others: stamp, store
\* url: data['url'] of the request, NoUrl or NotJson when there is none;
\* slept: durations passed to time.sleep;
\* calls: upstream requests made in the current attempt;
\* raised: the error the latest upstream call raised, None if it returned;
\* failures: attempts that ended in a retryable error;
\* fetched: the snippets the result was built from;
\* result, stamp: the dict to be cached and the time.time() read for it
IdleReq ==
    [pc |-> "idle", url |-> NoUrl, video_id |-> None, attempt |-> 0, last_exception |-> None,
     transcript_list |-> <<>>, transcript |-> NoTrack, slept |-> <<>>,
     calls |-> 0, raised |-> None, failures |-> 0, fetched |-> <<>>,
     result |-> NoData, stamp |-> 0, response |-> NoResponse]

\* clear_cache before size = len(transcript_cache)
NotClearing == [pc |-> "idle", size |-> -1]

\* main.py before it is imported: no key read, no request
\* calls: the external requests made for the current request, in order;
\* apify, video, dg: the responses they returned; raised: the exception that
\* left the try block; response: what the client gets
NoReply == [status_code |-> 0]

NoException == [type |-> None, status_code |-> 0, detail |-> ""]

NotLoaded ==
    [pc |-> "import", APIFY_TOKEN |-> FALSE, DEEPGRAM_KEY |-> FALSE,
     language |-> None, calls |-> <<>>, apify |-> NoReply, video |-> NoReply,
     dg |-> NoReply, raised |-> NoException, response |-> NoReply]

Init ==
    /\ variant \in Variants
    /\ now = 0
    /\ transcript_cache = EmptyCache
    /\ req = [r \in Reqs |-> IdleReq]
    /\ cleared = -1
    /\ wiped = {}
    /\ yt = NotStarted
    /\ health = -1
    /\ clearing = NotClearing
    /\ ig = NotLoaded

(***************************************************************************)
(* The retry loop                                                          *)
(***************************************************************************)
\* the locals of an attempt, gone when it is over
EndAttempt(rq) == [rq EXCEPT !.transcript_list = <<>>, !.transcript = NoTrack]

Respond(rq, resp) == [EndAttempt(rq) EXCEPT !.pc = "done", !.response = resp]

\* last_exception set by the first failure only
Sleep_keepsFirst(rq, e) ==
    [EndAttempt(rq) EXCEPT
        !.last_exception = IF @ = None THEN e ELSE @, !.failures = @ + 1,
        !.slept = Append(@, Delay(rq.attempt)), !.pc = "sleep"]

\* last_exception = e; time.sleep(delay) of the retry loop
Sleep(rq, e) ==
    [EndAttempt(rq) EXCEPT !.last_exception = e, !.failures = @ + 1,
                           !.slept = Append(@, Delay(rq.attempt)),
                           !.pc = "sleep"]

\* the unclassified error only breaks the loop: what is raised after it is
\* the error an earlier attempt left in last_exception, if there is one
LoopServerless_raisesRemembered(rq, e) ==
    IF IsRetryable(e) THEN Sleep(rq, e)
    ELSE IF IsTerminal(e)
    THEN Respond(rq, ErrorResponse("serverless", e, rq.video_id))
    ELSE Respond(rq, ErrorResponse("serverless",
                        IF rq.last_exception = None THEN e ELSE rq.last_exception,
                        rq.video_id))

\* serverless fetch_transcript_with_retry, the except clauses of its loop:
\* a retryable error always sleeps, a terminal one is re-raised, any other
\* breaks the loop and is raised after it
LoopServerless(rq, e) ==
    IF IsRetryable(e) THEN Sleep(rq, e)
    ELSE IF IsTerminal(e)
    THEN Respond(rq, ErrorResponse("serverless", e, rq.video_id))
    ELSE Respond([rq EXCEPT !.last_exception = e],
                 ErrorResponse("serverless", e, rq.video_id))

\* Flask retry_with_backoff.wrapper: a retryable error sleeps while
\* attempt < max_retries and is re-raised on the last attempt; terminal and
\* other errors leave the wrapper at once
LoopFlask(rq, e) ==
    IF IsRetryable(e)
    THEN IF rq.attempt < max_retries
         THEN Sleep(rq, e)
         ELSE Respond([rq EXCEPT !.last_exception = e, !.failures = @ + 1],
                      ErrorResponse("flask", e, rq.video_id))
    ELSE Respond(rq, ErrorResponse("flask", e, rq.video_id))

\* an exception leaves the attempt
AttemptFails(v, rq, e) ==
    IF v = "flask" THEN LoopFlask(rq, e) ELSE LoopServerless(rq, e)

\* an exception inside the list / select / fetch block: the Flask function
\* catches every Exception there and falls back to ytt_api.fetch(video_id)
BodyFails(v, rq, e) ==
    IF v = "flask" THEN [EndAttempt(rq) EXCEPT !.pc = "direct"]
    ELSE AttemptFails(v, rq, e)

\* one attempt more than max_retries + 1
NextAttempt_oneMore(v, rq) ==
    IF rq.attempt < max_retries + 1
    THEN [rq EXCEPT !.attempt = @ + 1, !.pc = "list", !.raised = None,
                    !.calls = 0]
    ELSE Respond(rq, ErrorResponse(v, rq.last_exception, rq.video_id))

\* the loop goes on with the next attempt, or is over
NextAttempt(v, rq) ==
    IF rq.attempt < max_retries
    THEN [rq EXCEPT !.attempt = @ + 1, !.pc = "list", !.raised = None,
                    !.calls = 0]
    ELSE Respond(rq, ErrorResponse(v, rq.last_exception, rq.video_id))

(***************************************************************************)
(* Upstream outcomes                                                       *)
(***************************************************************************)
Raises(E) == [ok : {FALSE}, err : E]

Returns(S) == [ok : {TRUE}, val : S]

DirectResults == [snippets : SnippetSeqs, language_code : Languages]

(***************************************************************************)
(* Actions                                                                 *)
(***************************************************************************)
\* the cache branch answers but does not return: the fetch follows
Begin_noReturn(r, body) ==
    /\ req[r].pc \in {"idle", "done"}
    /\ LET start  == [IdleReq EXCEPT !.url = body]
           vid    == extract_video_id(variant, body)
           cached == get_cached_transcript(transcript_cache, vid, now)
       IN  req' = [req EXCEPT ![r] =
              IF body = NotJson
              THEN Respond(start, ParseError(variant))
              ELSE IF body = NoUrl
              THEN Respond(start, Failure(400, "URL is required", None, None))
              ELSE IF vid = None
              THEN Respond(start, Failure(400, "Invalid YouTube URL", None, None))
              ELSE IF cached # NoData
              THEN [start EXCEPT !.video_id = vid, !.pc = "list",
                                   !.response = Hit(cached)]
              ELSE [start EXCEPT !.video_id = vid, !.pc = "list"]]
    /\ UNCHANGED <<ig, clearing, yt, health, variant, now, transcript_cache, cleared, wiped>>

\* a lookup that finds an expired entry deletes it
Begin_evictsExpired(r, body) ==
    /\ req[r].pc \in {"idle", "done"}
    /\ LET start  == [IdleReq EXCEPT !.url = body]
           vid    == extract_video_id(variant, body)
           cached == get_cached_transcript(transcript_cache, vid, now)
       IN  /\ req' = [req EXCEPT ![r] =
                 IF body = NotJson
                 THEN Respond(start, ParseError(variant))
                 ELSE IF body = NoUrl
                 THEN Respond(start, Failure(400, "URL is required", None, None))
                 ELSE IF vid = None
                 THEN Respond(start, Failure(400, "Invalid YouTube URL", None, None))
                 ELSE IF cached # NoData
                 THEN Respond([start EXCEPT !.video_id = vid], Hit(cached))
                 ELSE [start EXCEPT !.video_id = vid, !.pc = "list"]]
           /\ transcript_cache' =
                 IF body \in Urls /\ vid \in DOMAIN transcript_cache
                    /\ cached = NoData
                 THEN [k \in DOMAIN transcript_cache \ {vid} |->
                          transcript_cache[k]]
                 ELSE transcript_cache
    /\ UNCHANGED <<ig, clearing, yt, health, variant, now, cleared, wiped>>

\* the hit marks the stored dict itself (cached['cached'] = True) and renews
\* its timestamp
Begin_marksEntry(r, body) ==
    /\ req[r].pc \in {"idle", "done"}
    /\ LET start  == [IdleReq EXCEPT !.url = body]
           vid    == extract_video_id(variant, body)
           cached == get_cached_transcript(transcript_cache, vid, now)
       IN  /\ req' = [req EXCEPT ![r] =
                 IF body = NotJson
                 THEN Respond(start, ParseError(variant))
                 ELSE IF body = NoUrl
                 THEN Respond(start, Failure(400, "URL is required", None, None))
                 ELSE IF vid = None
                 THEN Respond(start, Failure(400, "Invalid YouTube URL", None, None))
                 ELSE IF cached # NoData
                 THEN Respond([start EXCEPT !.video_id = vid], Hit(cached))
                 ELSE [start EXCEPT !.video_id = vid, !.pc = "list"]]
           /\ transcript_cache' =
                 IF body \notin {NotJson, NoUrl} /\ vid # None /\ cached # NoData
                 THEN [transcript_cache EXCEPT
                          ![vid] = [data |-> [cached EXCEPT !.cached = TRUE],
                                    timestamp |-> now]]
                 ELSE transcript_cache
    /\ UNCHANGED <<ig, clearing, yt, health, variant, now, cleared, wiped>>

\* transcribe / do_POST up to the first upstream call: parse, extract the
\* identifier, look the cache up
Begin(r, body) ==
    /\ req[r].pc \in {"idle", "done"}
    /\ LET start  == [IdleReq EXCEPT !.url = body]
           vid    == extract_video_id(variant, body)
           cached == get_cached_transcript(transcript_cache, vid, now)
       IN  req' = [req EXCEPT ![r] =
              IF body = NotJson
              THEN Respond(start, ParseError(variant))
              ELSE IF body = NoUrl
              THEN Respond(start, Failure(400, "URL is required", None, None))
              ELSE IF vid = None
              THEN Respond(start, Failure(400, "Invalid YouTube URL", None, None))
              ELSE IF cached # NoData
              THEN Respond([start EXCEPT !.video_id = vid], Hit(cached))
              ELSE [start EXCEPT !.video_id = vid, !.pc = "list"]]
    /\ UNCHANGED <<ig, clearing, yt, health, variant, now, transcript_cache, cleared, wiped>>

\* ytt_api.list_transcripts(video_id) and the choice of the track
ListTranscripts(r, L, E) ==
    /\ req[r].pc = "list"
    /\ \E o \in Returns(L) \cup Raises(E) :
         LET rq == [req[r] EXCEPT !.calls = @ + 1, !.raised = None]
         IN  req' = [req EXCEPT ![r] =
                IF o.ok
                THEN LET chosen == SelectTranscript(o.val)
                         got == [rq EXCEPT !.transcript_list = o.val,
                                           !.transcript = chosen]
                     IN  IF chosen = NoTrack
                         THEN BodyFails(variant, got, "NoTranscriptFound")
                         ELSE [got EXCEPT !.pc = "fetch"]
                ELSE BodyFails(variant, [rq EXCEPT !.raised = o.err], o.err)]
    /\ UNCHANGED <<ig, clearing, yt, health, variant, now, transcript_cache, cleared, wiped>>

\* the result is sent without being stored
Succeed_noStore(r, rq, snippets, lang) ==
    LET result == FreshResult(rq.video_id, Join(snippets), lang)
    IN  /\ req' = [req EXCEPT ![r] =
                      Respond([rq EXCEPT !.fetched = snippets, !.raised = None],
                              Ok(result))]
        /\ UNCHANGED <<ig, clearing, yt, health, variant, now, cleared, transcript_cache, wiped>>

\* the result is built, cached and sent
Succeed(r, rq, snippets, lang) ==
    LET result == FreshResult(rq.video_id, Join(snippets), lang)
    IN  /\ transcript_cache' =
              cache_transcript(transcript_cache, rq.video_id, result, now)
        /\ req' = [req EXCEPT ![r] =
                      Respond([rq EXCEPT !.fetched = snippets, !.raised = None],
                              Ok(result))]
        /\ wiped' = wiped \ {rq.video_id}
        /\ UNCHANGED <<ig, clearing, yt, health, variant, now, cleared>>

\* the entry is written before the fetch is known to have succeeded
FetchTranscript_cachesFailure(r, S, E) ==
    /\ req[r].pc = "fetch"
    /\ LET rq == [req[r] EXCEPT !.calls = @ + 1]
       IN  \/ \E o \in Returns(S) :
                Succeed(r, rq, o.val, rq.transcript.language_code)
           \/ \E o \in Raises(E) :
                /\ req' = [req EXCEPT ![r] =
                      BodyFails(variant, [rq EXCEPT !.raised = o.err], o.err)]
                /\ transcript_cache' =
                      cache_transcript(transcript_cache, rq.video_id,
                         FreshResult(rq.video_id, "", rq.transcript.language_code),
                         now)
                /\ UNCHANGED <<ig, clearing, yt, health, variant, now, cleared, wiped>>

\* transcript.fetch() of the chosen track
FetchTranscript(r, S, E) ==
    /\ req[r].pc = "fetch"
    /\ LET rq == [req[r] EXCEPT !.calls = @ + 1]
       IN  \/ \E o \in Returns(S) :
                Succeed(r, rq, o.val, rq.transcript.language_code)
           \/ \E o \in Raises(E) :
                /\ req' = [req EXCEPT ![r] =
                      BodyFails(variant, [rq EXCEPT !.raised = o.err], o.err)]
                /\ UNCHANGED <<ig, clearing, yt, health, variant, now, transcript_cache, cleared, wiped>>

\* Flask only: the fallback ytt_api.fetch(video_id)
DirectFetch(r, D, E) ==
    /\ req[r].pc = "direct"
    /\ LET rq == [req[r] EXCEPT !.calls = @ + 1]
       IN  \/ \E o \in Returns(D) :
                Succeed(r, rq, o.val.snippets, o.val.language_code)
           \/ \E o \in Raises(E) :
                /\ req' = [req EXCEPT ![r] =
                      AttemptFails(variant, [rq EXCEPT !.raised = o.err], o.err)]
                /\ UNCHANGED <<ig, clearing, yt, health, variant, now, transcript_cache, cleared, wiped>>

\* time.sleep returns
WakeUp(r) ==
    /\ req[r].pc = "sleep"
    /\ req' = [req EXCEPT ![r] = NextAttempt(variant, req[r])]
    /\ UNCHANGED <<ig, clearing, yt, health, variant, now, transcript_cache, cleared, wiped>>

\* the size read after the clear instead of before it
ClearCache_countsAfter ==
    /\ cleared' = 0
    /\ transcript_cache' = EmptyCache
    /\ wiped' = DOMAIN transcript_cache
    /\ UNCHANGED <<ig, clearing, yt, health, variant, now, req>>

\* clear_cache / the clear-cache branch of do_POST
ClearCache ==
    /\ cleared' = Cardinality(DOMAIN transcript_cache)
    /\ transcript_cache' = EmptyCache
    /\ wiped' = DOMAIN transcript_cache
    /\ UNCHANGED <<ig, clearing, yt, health, variant, now, req>>

\* health / do_GET: 'cache_size': len(transcript_cache)
Health ==
    /\ health' = Cardinality(DOMAIN transcript_cache)
    /\ UNCHANGED <<ig, clearing, yt, variant, now, transcript_cache, req, cleared, wiped>>

\* time passes
Tick ==
    /\ \E t \in Instants : t > now /\ now' = t
    /\ UNCHANGED <<ig, clearing, yt, health, variant, transcript_cache, req, cleared, wiped>>

(***************************************************************************)
(* The service: requests for two videos, the clock, clear-cache; the       *)
(* upstream answers with one of a few listings and one error of each class *)
(***************************************************************************)
\* no url, the two videos by their bare identifiers, a token too short
FewBodies == {NoUrl, <<"AAAAAAAAAAA">>, <<"BBBBBBBBBBB">>, <<"short">>}

FewListings ==
    {<<>>, <<[language_code |-> "en", is_generated |-> FALSE]>>,
     <<[language_code |-> "de", is_generated |-> TRUE]>>}

FewSnippets == {<<"a">>, <<"a", "b">>}

FewDirect == [snippets : FewSnippets, language_code : {"en"}]

FewErrors == {"RequestBlocked", "VideoUnavailable", "TypeError"}

Next ==
    \/ \E r \in Serial :
          \/ \E body \in FewBodies : Begin(r, body)
          \/ ListTranscripts(r, FewListings, FewErrors)
          \/ FetchTranscript(r, FewSnippets, FewErrors)
          \/ DirectFetch(r, FewDirect, FewErrors)
          \/ WakeUp(r)
    \/ ClearCache
    \/ Tick

Spec == Init /\ [][Next]_vars

(***************************************************************************)
(* One fetch in full: a request for one video against every listing,      *)
(* every snippet sequence and every error kind of the upstream             *)
(***************************************************************************)
OneUrl == {<<"AAAAAAAAAAA">>}

NextFetch ==
    \E r \in Serial :
       \/ \E body \in OneUrl : Begin(r, body)
       \/ ListTranscripts(r, Listings, ErrorKinds)
       \/ FetchTranscript(r, SnippetSeqs, ErrorKinds)
       \/ DirectFetch(r, DirectResults, ErrorKinds)
       \/ WakeUp(r)

SpecFetch == Init /\ [][NextFetch]_vars

(***************************************************************************)
(* Extraction: requests with every url of Urls, the upstream answering     *)
(* with one listing, one transcript and one error                          *)
(***************************************************************************)
OneListing == {<<[language_code |-> "en", is_generated |-> FALSE]>>}

OneSnippets == {<<"a">>}

OneDirect == [snippets : OneSnippets, language_code : {"en"}]

OneError == {"VideoUnavailable"}

NextExtract ==
    \E r \in Serial :
       \/ \E body \in Bodies : Begin(r, body)
       \/ ListTranscripts(r, OneListing, OneError)
       \/ FetchTranscript(r, OneSnippets, OneError)
       \/ DirectFetch(r, OneDirect, OneError)

SpecExtract == Init /\ [][NextExtract]_vars

(***************************************************************************)
(* Failures: requests with and without a usable url, the upstream raising  *)
(* every error kind                                                        *)
(***************************************************************************)
ErrorBodies == {NoUrl, NotJson, <<>>, <<"short">>, <<"AAAAAAAAAAA">>}

NextErrors ==
    \E r \in Serial :
       \/ \E body \in ErrorBodies : Begin(r, body)
       \/ ListTranscripts(r, FewListings, ErrorKinds)
       \/ FetchTranscript(r, OneSnippets, ErrorKinds)
       \/ DirectFetch(r, OneDirect, ErrorKinds)
       \/ WakeUp(r)

SpecErrors == Init /\ [][NextErrors]_vars

(***************************************************************************)
(* Requests served side by side (threads of the Flask server, or calls of  *)
(* one warm serverless instance): between the upstream answer and the      *)
(* response a request builds its result, reads the clock and assigns the   *)
(* cache entry, and the other request may run between any two of these     *)
(***************************************************************************)
\* result = {...}: the result is built from what the upstream returned
HoldResult(r, rq, snippets, lang) ==
    /\ req' = [req EXCEPT ![r] =
          [EndAttempt(rq) EXCEPT
              !.fetched = snippets, !.raised = None, !.pc = "stamp",
              !.result = FreshResult(rq.video_id, Join(snippets), lang)]]
    /\ UNCHANGED <<ig, clearing, yt, health, variant, now, transcript_cache, cleared, wiped>>

\* transcript.fetch() of the chosen track, up to the result
FetchAndHold(r, S, E) ==
    /\ req[r].pc = "fetch"
    /\ LET rq == [req[r] EXCEPT !.calls = @ + 1]
       IN  \/ \E o \in Returns(S) :
                HoldResult(r, rq, o.val, rq.transcript.language_code)
           \/ \E o \in Raises(E) :
                /\ req' = [req EXCEPT ![r] =
                      BodyFails(variant, [rq EXCEPT !.raised = o.err], o.err)]
                /\ UNCHANGED <<ig, clearing, yt, health, variant, now, transcript_cache, cleared, wiped>>

\* Flask only: the fallback ytt_api.fetch(video_id), up to the result
DirectAndHold(r, D, E) ==
    /\ req[r].pc = "direct"
    /\ LET rq == [req[r] EXCEPT !.calls = @ + 1]
       IN  \/ \E o \in Returns(D) :
                HoldResult(r, rq, o.val.snippets, o.val.language_code)
           \/ \E o \in Raises(E) :
                /\ req' = [req EXCEPT ![r] =
                      AttemptFails(variant, [rq EXCEPT !.raised = o.err], o.err)]
                /\ UNCHANGED <<ig, clearing, yt, health, variant, now, transcript_cache, cleared, wiped>>

\* cache_transcript: 'timestamp': time.time() is evaluated
Stamp(r) ==
    /\ req[r].pc = "stamp"
    /\ req' = [req EXCEPT ![r] = [@ EXCEPT !.stamp = now, !.pc = "store"]]
    /\ UNCHANGED <<ig, clearing, yt, health, variant, now, transcript_cache, cleared, wiped>>

\* the entry is assigned under the key of the request that finished last
StoreEntry_lastKey(r) ==
    /\ req[r].pc = "store"
    /\ \E k \in {req[q].video_id : q \in Reqs} \ {None} :
          transcript_cache' =
              cache_transcript(transcript_cache, k, req[r].result, req[r].stamp)
    /\ req' = [req EXCEPT ![r] = Respond(@, Ok(@.result))]
    /\ wiped' = wiped \ {req[r].video_id}
    /\ UNCHANGED <<ig, clearing, yt, health, variant, now, cleared>>

\* cache_transcript: transcript_cache[video_id] = {...}, then the response
StoreEntry(r) ==
    /\ req[r].pc = "store"
    /\ transcript_cache' =
          cache_transcript(transcript_cache, req[r].video_id, req[r].result,
                           req[r].stamp)
    /\ req' = [req EXCEPT ![r] = Respond(@, Ok(@.result))]
    /\ wiped' = wiped \ {req[r].video_id}
    /\ UNCHANGED <<ig, clearing, yt, health, variant, now, cleared>>

\* two requests at a time for the two videos, the upstream answering with one
\* listing, one of two transcripts, or VideoUnavailable
TwoBodies == {<<"AAAAAAAAAAA">>, <<"BBBBBBBBBBB">>}

NextConcurrent ==
    \/ \E r \in Reqs :
          \/ \E body \in TwoBodies : Begin(r, body)
          \/ ListTranscripts(r, OneListing, OneError)
          \/ FetchAndHold(r, FewSnippets, OneError)
          \/ DirectAndHold(r, FewDirect, OneError)
          \/ Stamp(r)
          \/ StoreEntry(r)
    \/ Tick

SpecConcurrent == Init /\ [][NextConcurrent]_vars

(***************************************************************************)
(* youtube_deepgram_transcriber.py: one run of the script.  Each yt-dlp    *)
(* subprocess is a step: it succeeds, times out, exits non-zero with some  *)
(* text on stderr, or cannot be run at all.                                *)
(***************************************************************************)
\* the token strategy with either of the two variables set
Strategies_eitherCredential(po_token, visitor_data, cookies) ==
    (IF po_token \/ visitor_data THEN <<"PO Token + Visitor Data">> ELSE <<>>)
       \o (IF cookies THEN <<"Cookies File">> ELSE <<>>)
       \o <<"iOS Client", "TV Embedded", "Mobile Web", "Android TestSuite",
            "Web Client">>

\* the list download_youtube_audio builds before its loop
Strategies(po_token, visitor_data, cookies) ==
    (IF po_token /\ visitor_data THEN <<"PO Token + Visitor Data">> ELSE <<>>)
       \o (IF cookies THEN <<"Cookies File">> ELSE <<>>)
       \o <<"iOS Client", "TV Embedded", "Mobile Web", "Android TestSuite",
            "Web Client">>

\* the words the loop looks for in e.stderr.lower()
Marks == {"bot", "sign in", "unavailable", "private", "age"}

\* the stderr texts of the model, each as the set of the marks it contains
\* ("Private video. Sign in if you've been granted access to this video"
\* contains 'private' and 'sign in')
Stderrs ==
    {{}, {"bot"}, {"sign in"}, {"unavailable"}, {"private"}, {"age"},
     {"bot", "unavailable"}, {"age", "private"}, {"private", "sign in"}}

\* the if / elif chain over error_lower
ErrorClass(stderr) ==
    IF "bot" \in stderr \/ "sign in" \in stderr THEN "bot"
    ELSE IF "unavailable" \in stderr \/ "private" \in stderr THEN "unavailable"
    ELSE IF "age" \in stderr THEN "age"
    ELSE "other"

\* how a subprocess.run ends: returns, TimeoutExpired, CalledProcessError
\* with its stderr, or another exception (the program cannot be started)
RunOutcomes ==
    {[kind |-> "ok", stderr |-> {}], [kind |-> "timeout", stderr |-> {}],
     [kind |-> "OSError", stderr |-> {}]}
       \cup [kind : {"CalledProcessError"}, stderr : Stderrs]

\* what stops the script before the download
Preconditions == {"ok", "no api key", "usage", "no yt-dlp"}

Exit(y, status) == [y EXCEPT !.pc = "exited", !.exit = status]

\* the module level and main up to the loop of download_youtube_audio
Start ==
    /\ yt.pc = "start"
    /\ \E pre \in Preconditions, po \in BOOLEAN, vd \in BOOLEAN, ck \in BOOLEAN :
          yt' = IF pre # "ok" THEN Exit(yt, 1)
                ELSE [yt EXCEPT !.pc = "loop", !.po_token = po,
                                !.visitor_data = vd, !.cookies = ck,
                                !.strategies = Strategies(po, vd, ck)]
    /\ UNCHANGED <<service, ig>>

\* the loop goes on to the next strategy; after the last one the function
\* ends in sys.exit(1)
Continue(y) ==
    IF Len(y.tried) < Len(y.strategies) THEN y ELSE Exit(y, 1)

\* one turn of the loop: the subprocess of the next strategy and its handling
RunStrategy ==
    /\ yt.pc = "loop"
    /\ \E o \in RunOutcomes :
          LET strategy == yt.strategies[Len(yt.tried) + 1]
              ran == [yt EXCEPT !.tried = Append(@, strategy),
                                !.outcomes = Append(@, o.kind)]
          IN  yt' = IF o.kind = "ok" THEN [ran EXCEPT !.pc = "downloaded"]
                    ELSE IF o.kind = "OSError" THEN Exit(ran, 1)
                    ELSE IF o.kind = "timeout"
                    THEN Continue([ran EXCEPT !.last_error = o])
                    ELSE IF ErrorClass(o.stderr) = "unavailable"
                    THEN Exit([ran EXCEPT !.last_error = o], 1)
                    ELSE Continue([ran EXCEPT !.last_error = o])
    /\ UNCHANGED <<service, ig>>

\* the rest of main: the audio file is found and transcribed, or not
Transcribe ==
    /\ yt.pc = "downloaded"
    /\ \E status \in {0, 1} : yt' = Exit(yt, status)
    /\ UNCHANGED <<service, ig>>

NextDownload == Start \/ RunStrategy \/ Transcribe

SpecDownload == Init /\ [][NextDownload]_vars

(***************************************************************************)
(* The cache over time: requests for the two videos, the clock, the health *)
(* probe and clear-cache, the upstream answering with one listing, one     *)
(* transcript or one error                                                 *)
(***************************************************************************)
NextCache ==
    \/ \E r \in Serial :
          \/ \E body \in FewBodies : Begin(r, body)
          \/ ListTranscripts(r, OneListing, OneError)
          \/ FetchTranscript(r, OneSnippets, OneError)
          \/ DirectFetch(r, OneDirect, OneError)
    \/ Health
    \/ ClearCache
    \/ Tick

SpecCache == Init /\ [][NextCache]_vars

(***************************************************************************)
(* One fetch in full by a handler that keeps running: every upstream call  *)
(* returns or raises and every time.sleep returns                          *)
(***************************************************************************)
Progress(r) ==
    \/ ListTranscripts(r, Listings, ErrorKinds)
    \/ FetchTranscript(r, SnippetSeqs, ErrorKinds)
    \/ DirectFetch(r, DirectResults, ErrorKinds)
    \/ WakeUp(r)

SpecFetchFair == SpecFetch /\ \A r \in Serial : WF_vars(Progress(r))

(***************************************************************************)
(* clear-cache beside requests that store: the two statements of           *)
(* clear_cache are two steps, and a request may run between them           *)
(***************************************************************************)
\* size = len(transcript_cache)
ReadSize ==
    /\ clearing.pc = "idle"
    /\ clearing' = [pc |-> "clear", size |-> Cardinality(DOMAIN transcript_cache)]
    /\ UNCHANGED <<ig, yt, health, variant, now, transcript_cache, req, cleared, wiped>>

\* transcript_cache.clear(), then the response with the size read before
EmptyMapping ==
    /\ clearing.pc = "clear"
    /\ transcript_cache' = EmptyCache
    /\ cleared' = clearing.size
    /\ wiped' = DOMAIN transcript_cache
    /\ clearing' = NotClearing
    /\ UNCHANGED <<ig, yt, health, variant, now, req>>

NextClear ==
    \/ \E r \in Reqs :
          \/ \E body \in TwoBodies : Begin(r, body)
          \/ ListTranscripts(r, OneListing, OneError)
          \/ FetchAndHold(r, OneSnippets, OneError)
          \/ DirectAndHold(r, OneDirect, OneError)
          \/ Stamp(r)
          \/ StoreEntry(r)
    \/ ReadSize
    \/ EmptyMapping

SpecClear == Init /\ [][NextClear]_vars

(***************************************************************************)
(* The Instagram service (instagram-api/main.py): one request at a time,   *)
(* through the Apify scrape, the video download and the Deepgram call      *)
(***************************************************************************)
HTTPException(status, detail) ==
    [type |-> "HTTPException", status_code |-> status, detail |-> detail]

\* an exception of another class, raised by httpx, by .json() or by a
\* subscript; detail is str(e)
OtherException(kind) == [type |-> kind, status_code |-> 0, detail |-> kind]

\* the generic clause alone: every exception becomes a 500
ExceptClauses_onlyGeneric(exc) == HTTPException(500, exc.detail)

\* except HTTPException: raise / except Exception as e: raise
\* HTTPException(status_code=500, detail=str(e))
ExceptClauses(exc) ==
    IF exc.type = "HTTPException" THEN exc ELSE HTTPException(500, exc.detail)

\* what FastAPI sends for an HTTPException
ErrorReply(exc) == [status_code |-> exc.status_code, detail |-> exc.detail]

\* an exception raised inside the try block
RaiseInTry(g, exc) ==
    [g EXCEPT !.pc = "done", !.raised = exc,
              !.response = ErrorReply(ExceptClauses(exc))]

\* what the external services answer
ApifyStatuses == {200, 201, 404, 500}

NoVideoUrls == {None, ""}

VideoUrls == {"https://cdn/v.mp4"}

\* apify_response.json(): null, an empty list, or a list of one item
Null == [null |-> TRUE, items |-> <<>>]

Datasets ==
    {Null}
    \cup [null : {FALSE},
          items : {<<>>} \cup {<<[videoUrl |-> u]>> : u \in NoVideoUrls \cup VideoUrls}]

\* not data or len(data) == 0
IsEmpty(data) == data.null \/ Len(data.items) = 0

DownloadStatuses == {200, 403, 404}

DeepgramStatuses == {200, 400, 401}

\* dg_response.json(): without results, or one channel with or without
\* detected_language
DeepgramBodies ==
    {[results |-> FALSE, detected_language |-> None]}
    \cup [results : {TRUE}, detected_language : {None, "de"}]

TransportErrors == {"ReadTimeout"}

\* APIFY_TOKEN = os.getenv(...), DEEPGRAM_KEY = os.getenv(...)
LoadKeys ==
    /\ ig.pc = "import"
    /\ \E a \in BOOLEAN, d \in BOOLEAN :
          ig' = [ig EXCEPT !.pc = "idle", !.APIFY_TOKEN = a, !.DEEPGRAM_KEY = d]
    /\ UNCHANGED <<service, yt>>

\* transcribe_instagram up to the try block
Post(language) ==
    /\ ig.pc \in {"idle", "done"}
    /\ LET g == [NotLoaded EXCEPT !.APIFY_TOKEN = ig.APIFY_TOKEN,
                                  !.DEEPGRAM_KEY = ig.DEEPGRAM_KEY,
                                  !.language = language]
       IN  ig' = IF ~g.APIFY_TOKEN \/ ~g.DEEPGRAM_KEY
                 THEN LET exc == HTTPException(500, "API keys not configured")
                      IN  [g EXCEPT !.pc = "done", !.raised = exc,
                                    !.response = ErrorReply(exc)]
                 ELSE [g EXCEPT !.pc = "apify"]
    /\ UNCHANGED <<service, yt>>

\* Step 1: client.post(apify_url, ...) and the tests of its answer
Scrape ==
    /\ ig.pc = "apify"
    /\ LET g == [ig EXCEPT !.calls = Append(@, "apify")]
       IN  \/ \E e \in TransportErrors : ig' = RaiseInTry(g, OtherException(e))
           \/ \E code \in ApifyStatuses, data \in Datasets :
                LET got == [g EXCEPT !.apify = [status_code |-> code,
                                                data |-> data]]
                IN  ig' =
                      IF code \notin {200, 201}
                      THEN RaiseInTry(got,
                              HTTPException(500, "Apify failed: " \o ToString(code)))
                      ELSE IF IsEmpty(data)
                      THEN RaiseInTry(got,
                              HTTPException(404, "Instagram post not found"))
                      ELSE IF data.items[1].videoUrl \in NoVideoUrls
                      THEN RaiseInTry(got,
                              HTTPException(400,
                                 "No video found - post may be image/carousel"))
                      ELSE [got EXCEPT !.pc = "download"]
    /\ UNCHANGED <<service, yt>>

\* Step 2: client.get(video_url, ...)
Download ==
    /\ ig.pc = "download"
    /\ LET g == [ig EXCEPT !.calls = Append(@, "download")]
       IN  \/ \E e \in TransportErrors : ig' = RaiseInTry(g, OtherException(e))
           \/ \E code \in DownloadStatuses :
                LET got == [g EXCEPT !.video = [status_code |-> code]]
                IN  ig' = IF code # 200
                          THEN RaiseInTry(got,
                                  HTTPException(500, "Failed to download video"))
                          ELSE [got EXCEPT !.pc = "deepgram"]
    /\ UNCHANGED <<service, yt>>

\* Step 3: client.post(dg_url, ...), the extraction of the result and the
\* response
Deepgram ==
    /\ ig.pc = "deepgram"
    /\ LET g == [ig EXCEPT !.calls = Append(@, "deepgram")]
       IN  \/ \E e \in TransportErrors : ig' = RaiseInTry(g, OtherException(e))
           \/ \E code \in DeepgramStatuses, body \in DeepgramBodies :
                LET got == [g EXCEPT !.dg = [status_code |-> code, body |-> body]]
                IN  ig' =
                      IF code # 200
                      THEN RaiseInTry(got,
                              HTTPException(500,
                                 "Deepgram failed: " \o ToString(code)))
                      ELSE IF ~body.results
                      THEN RaiseInTry(got, OtherException("KeyError"))
                      ELSE [got EXCEPT
                              !.pc = "done",
                              !.response =
                                 [status_code |-> 200,
                                  language_detected |->
                                     IF body.detected_language # None
                                     THEN body.detected_language
                                     ELSE IF g.language # None THEN g.language
                                     ELSE "auto-detected"]]
    /\ UNCHANGED <<service, yt>>

RequestLanguages == {None, "en"}

NextInstagram ==
    \/ LoadKeys
    \/ \E language \in RequestLanguages : Post(language)
    \/ Scrape
    \/ Download
    \/ Deepgram

SpecInstagram == Init /\ [][NextInstagram]_vars

(***************************************************************************)
(* Properties                                                              *)
(***************************************************************************)
\* a step in which slot r takes a new request
BeginStep(r) == req[r].pc \in {"idle", "done"} /\ req'[r] # req[r]

\* the cache holds an entry for k that is younger than the TTL at time t
Unexpired(k, t) ==
    k \in DOMAIN transcript_cache /\ t - transcript_cache[k].timestamp < CACHE_TTL

Fresh(resp) == resp.status = 200 /\ ~resp.cached

Served(resp) == resp.status = 200 /\ resp.cached

\* C1: a request answered by a fresh fetch, then a request for the same
\* identifier while the entry is still there and younger than the TTL: the
\* second answer has cached = true and the transcript and language of the
\* first, which had cached = false.  More generally an answer from the cache
\* carries the transcript and language of the entry, and the entry carries
\* those of the fresh answer that stored it.
C1_CacheIdempotence ==
    [][\A r \in Reqs :
          LET first  == req[r].response
              second == req'[r].response
              k      == req'[r].video_id
          IN  /\ ( /\ BeginStep(r) /\ req[r].pc = "done" /\ Fresh(first)
                   /\ k = first.videoId /\ Unexpired(k, now) )
                 => /\ Served(second)
                    /\ second.transcript = first.transcript
                    /\ second.language = first.language
              /\ (BeginStep(r) /\ k # None /\ Unexpired(k, now))
                 => /\ Served(second)
                    /\ second.transcript = transcript_cache[k].data.transcript
                    /\ second.language = transcript_cache[k].data.language
              /\ (req[r].pc \in {"fetch", "direct"} /\ Fresh(second))
                 => /\ transcript_cache'[k].data.transcript = second.transcript
                    /\ transcript_cache'[k].data.language = second.language
                    /\ ~transcript_cache'[k].data.cached
      ]_vars

\* a second request was answered from the cache at the last instant of the TTL
W1_ServedWithinTtl ==
    \E r \in Reqs :
       /\ req[r].pc = "done" /\ Served(req[r].response)
       /\ now = CACHE_TTL - 1
       /\ transcript_cache[req[r].video_id].timestamp = 0
       /\ req[r].response.transcript = "a b"

\* C2: a request whose identifier has an unexpired entry at lookup time is
\* answered at once from the cache, with no upstream call and no delay; the
\* fetch starts only when there is no unexpired entry.
C2_HitShortCircuits ==
    [][\A r \in Reqs :
          LET k == req'[r].video_id
          IN  (BeginStep(r) /\ k # None)
              => /\ Unexpired(k, now)
                    => /\ req'[r].pc = "done" /\ Served(req'[r].response)
                       /\ req'[r].calls = 0 /\ req'[r].attempt = 0
                       /\ req'[r].slept = <<>>
                 /\ req'[r].pc = "list" <=> ~Unexpired(k, now)
      ]_vars

\* a request was answered from the cache without an upstream call while the
\* cache also holds an expired entry for the other video
W2_HitWithoutUpstream ==
    \E r \in Reqs :
       /\ req[r].pc = "done" /\ Served(req[r].response)
       /\ req[r].calls = 0 /\ req[r].slept = <<>>
       /\ \E k \in DOMAIN transcript_cache : ~Unexpired(k, now)

\* C3: the lookup returns the stored result exactly while
\* now - timestamp < CACHE_TTL; no answer with cached = true comes from an
\* entry whose age is CACHE_TTL or more.
C3_StrictExpiry ==
    [][/\ \A k \in DOMAIN transcript_cache :
             get_cached_transcript(transcript_cache, k, now) =
                IF now - transcript_cache[k].timestamp >= CACHE_TTL
                THEN NoData ELSE transcript_cache[k].data
       /\ \A r \in Reqs :
             (BeginStep(r) /\ Served(req'[r].response))
             => /\ req'[r].video_id \in DOMAIN transcript_cache
                /\ now - transcript_cache[req'[r].video_id].timestamp < CACHE_TTL
      ]_vars

\* an entry of age exactly CACHE_TTL was looked up and the request went on to
\* fetch upstream
W3_MissAtTtl ==
    \E r \in Reqs :
       /\ req[r].pc = "list" /\ req[r].video_id \in DOMAIN transcript_cache
       /\ now - transcript_cache[req[r].video_id].timestamp = CACHE_TTL

\* a step of clear-cache: only it reports a count or removes keys
ClearStep ==
    \/ cleared' # cleared
    \/ /\ DOMAIN transcript_cache' # DOMAIN transcript_cache
       /\ DOMAIN transcript_cache' \subseteq DOMAIN transcript_cache

\* C4: clear-cache leaves the cache empty and reports the number of entries
\* held just before; a request for an identifier the clear removed (and that
\* was not stored again since) fetches upstream, and its answer has
\* cached = false.
C4_ClearEmptiesAndCounts ==
    [][/\ ClearStep
          => /\ transcript_cache' = EmptyCache
             /\ cleared' = Cardinality(DOMAIN transcript_cache)
       /\ \A r \in Reqs :
             /\ (BeginStep(r) /\ req'[r].video_id \in wiped)
                => req'[r].pc = "list"
             /\ ( /\ req[r].pc \in {"fetch", "direct"} /\ req'[r].pc = "done"
                  /\ req[r].video_id \in wiped /\ req'[r].response.status = 200 )
                => /\ ~req'[r].response.cached
                   /\ req'[r].calls >= 1
      ]_vars

\* two entries were cleared and a request for one of them is fetching upstream
W4_FetchAfterClear ==
    /\ cleared = 2 /\ transcript_cache = EmptyCache
    /\ \E r \in Reqs : req[r].pc = "list" /\ req[r].video_id \in wiped

(***************************************************************************)
(* Properties of the retry loop, under SpecFetch                           *)
(***************************************************************************)
\* C5: three attempts in a row fail with a retryable error and the fourth
\* succeeds: the delays are 1, 2 and 4 seconds, in that order and no more,
\* and the answer is the result of the fourth attempt.
C5_ThreeFailuresThenSuccess ==
    \A r \in Reqs :
       (req[r].pc = "done" /\ Fresh(req[r].response) /\ req[r].failures = 3)
       => /\ req[r].slept = <<1, 2, 4>>
          /\ req[r].attempt = 3
          /\ req[r].response.transcript = Join(req[r].fetched)
          /\ req[r].response.videoId = req[r].video_id

\* three retryable failures, then a result of two snippets
W5_SuccessOnFourthAttempt ==
    \E r \in Reqs :
       /\ req[r].pc = "done" /\ Fresh(req[r].response) /\ req[r].failures = 3
       /\ req[r].fetched = <<"a", "b">>
       /\ req[r].last_exception = "YouTubeRequestFailed"

\* C6 as claimed: after max_retries (3) retryable failures the loop gives up
\* and raises the last retryable error: no further attempt is made.
C6_GivesUpAfterMaxRetriesFailures ==
    \A r \in Reqs :
       req[r].failures = max_retries
       => /\ req[r].pc \in {"sleep", "done"}
          /\ req[r].pc = "done" => req[r].response.status = 429

\* C6 amended: the loop makes up to max_retries + 1 attempts; it gives up
\* after max_retries + 1 retryable failures in a row, and the error it raises
\* is the one of the most recent attempt.
C6_GivesUpAfterAllAttempts ==
    \A r \in Reqs :
       /\ req[r].failures <= max_retries + 1
       /\ req[r].failures = max_retries + 1
          => /\ req[r].pc \in {"sleep", "done"}
             /\ req[r].attempt = max_retries
             /\ req[r].last_exception = req[r].raised
             /\ req[r].pc = "done"
                => /\ req[r].response.status = 429
                   /\ req[r].response.error_type = req[r].raised
       /\ (req[r].pc = "done" /\ req[r].response.status = 429)
          => req[r].failures = max_retries + 1

\* the fourth attempt failed like the earlier ones and the request ended 429
W6_Exhausted ==
    \E r \in Reqs :
       /\ req[r].pc = "done" /\ req[r].failures = max_retries + 1
       /\ req[r].response.status = 429
       /\ req[r].response.error_type = "RequestBlocked"

\* C7: in the serverless fetch_transcript_with_retry a terminal error, from
\* the upstream or the NoTranscriptFound of an empty listing, ends the request
\* in the step it occurs: no delay, no further attempt, answer 404.
C7_TerminalAbortsServerless ==
    [][\A r \in Reqs :
          ( /\ variant = "serverless"
            /\ \/ req[r].pc \in {"list", "fetch"} /\ IsTerminal(req'[r].raised)
               \/ /\ req[r].pc = "list" /\ req'[r].raised = None
                  /\ req'[r].pc # "fetch" )
          => /\ req'[r].pc = "done"
             /\ req'[r].response.status = 404
             /\ req'[r].slept = req[r].slept
             /\ req'[r].attempt = req[r].attempt
             /\ req'[r].failures = req[r].failures
      ]_vars

\* a terminal error on the third attempt, after two delays
W7_TerminalAfterRetries ==
    \E r \in Reqs :
       /\ variant = "serverless" /\ req[r].pc = "done"
       /\ req[r].raised = "VideoUnavailable" /\ req[r].response.status = 404
       /\ req[r].attempt = 2 /\ req[r].slept = <<1, 2>>

\* C8 as claimed: in the Flask service, once the upstream has raised a
\* terminal error while listing or fetching, the request makes no further
\* upstream call.
C8_TerminalPropagatesFlask ==
    [][\A r \in Reqs :
          ( /\ variant = "flask" /\ req[r].pc \notin {"idle", "done"}
            /\ IsTerminal(req[r].raised) )
          => req'[r].calls = req[r].calls
      ]_vars

\* where an error leaves the attempt: the Flask function raises only from its
\* fallback fetch
EscapesAt(v) == IF v = "flask" THEN {"direct"} ELSE {"list", "fetch"}

Preferred == {"en", "en-US", "en-GB"}

\* the priority of the claim: a preferred language if there is one, else the
\* first manual track, else the first track
Prioritised(list, t) ==
    LET pref == {i \in 1..Len(list) : list[i].language_code \in Preferred}
        man  == {i \in 1..Len(list) : ~list[i].is_generated}
    IN  IF pref # {} THEN t.language_code \in Preferred /\ HasTrack(list, t)
        ELSE IF man # {} THEN \E i \in man : t = list[i] /\ \A j \in man : i <= j
        ELSE t = list[1]

\* the listing returned a track list and a track of it was chosen
Chose(r) == req[r].pc = "list" /\ req'[r].raised = None /\ req'[r].pc = "fetch"

\* the listing returned no track: the code raises NoTranscriptFound itself
ListedNothing(r) ==
    req[r].pc = "list" /\ req'[r].raised = None /\ req'[r].pc # "fetch"

NoTranscriptFoundAnswer(rq) ==
    /\ rq.pc = "done"
    /\ rq.response.status = 404
    /\ rq.response.error_type = "NoTranscriptFound"

\* C10 as claimed: whenever the listing returns, the track is chosen by the
\* priority (preferred language, first manual, first), and on an empty listing
\* the attempt fails with NoTranscriptFound (be it after the fallback fetch
\* of the Flask function).
C10_SelectionPriority ==
    [][\A r \in Reqs :
          /\ Chose(r)
             => /\ req'[r].transcript_list # <<>>
                /\ Prioritised(req'[r].transcript_list, req'[r].transcript)
          /\ ListedNothing(r)
             => \/ NoTranscriptFoundAnswer(req'[r])
                \/ variant = "flask" /\ req'[r].pc = "direct"
          /\ (req[r].pc = "direct" /\ req[r].raised = None)
             => NoTranscriptFoundAnswer(req'[r])
      ]_vars

(***************************************************************************)
(* Track resolution, under SpecFetch                                       *)
(***************************************************************************)
\* the only track of a listing
OnlyTrack(list, t) == list = <<t>>

\* C11: a listing with at least one track always resolves to one of its
\* tracks, whatever their languages and kinds; a listing whose only track is
\* machine-generated and not English resolves to that track; when the fetch
\* of the resolved track returns, the language of the answer is the language
\* code of that track.
C11_ResolverFallback ==
    [][/\ \A list \in Listings :
             list # <<>>
             => /\ SelectTranscript(list) # NoTrack
                /\ HasTrack(list, SelectTranscript(list))
                /\ Len(list) = 1 => SelectTranscript(list) = list[1]
       /\ \A r \in Reqs :
             /\ (req[r].pc = "list" /\ req'[r].pc = "fetch")
                => /\ req'[r].transcript_list # <<>>
                   /\ req'[r].transcript =
                         SelectTranscript(req'[r].transcript_list)
                   /\ HasTrack(req'[r].transcript_list, req'[r].transcript)
             /\ (req[r].pc = "fetch" /\ req'[r].pc = "done"
                   /\ req'[r].response.status = 200)
                => /\ req'[r].response.language =
                         req[r].transcript.language_code
                   /\ ~req'[r].response.cached
      ]_vars

\* the only track listed is generated and German, and it is the one resolved
W11_OnlyGeneratedForeignTrack ==
    \E r \in Reqs :
       /\ req[r].pc = "fetch"
       /\ OnlyTrack(req[r].transcript_list,
                    [language_code |-> "de", is_generated |-> TRUE])
       /\ req[r].transcript = [language_code |-> "de", is_generated |-> TRUE]

(***************************************************************************)
(* Identifier extraction, under SpecExtract                                *)
(***************************************************************************)
\* the inputs that name video X: the four url shapes around X, with or
\* without scheme and www, with or without a trailing part, and X alone
SupportedFor(X) ==
    {p \o <<h, X>> \o t : p \in Prefixes, h \in UrlShapes, t \in Trailers}
       \cup {<<X>>}

\* the order in which the patterns are to be tried
PatternOrder ==
    <<"youtube.com/watch?v=", "youtu.be/", "youtube.com/embed/",
      "youtube.com/shorts/", "bare">>

\* the result of the first pattern of PatternOrder that matches url
FirstInOrder(url, id) ==
    \A i \in 1..Len(PatternOrder) :
       ( /\ Search(PatternOrder[i], url) # None
         /\ \A j \in 1..(i - 1) : Search(PatternOrder[j], url) = None )
       => id = Search(PatternOrder[i], url)

\* C12: in the Flask service every supported input for an 11-character
\* identifier X is resolved to exactly X, and for every url the identifier is
\* the capture of the first pattern that matches, in the order watch, short
\* link, embed, shorts, bare token.
C12_FlaskExtractsIdentifier ==
    [][\A r \in Reqs :
          (BeginStep(r) /\ variant = "flask" /\ req'[r].url \in Urls)
          => /\ \A X \in VideoIds :
                   req'[r].url \in SupportedFor(X)
                   => /\ req'[r].video_id = X
                      /\ req'[r].response.status # 400
             /\ FirstInOrder(req'[r].url, req'[r].video_id)
             /\ req'[r].video_id = extract_video_id("flask", req'[r].url)
      ]_vars

\* a shorts url with scheme, www and a fragment was resolved to its identifier
W12_ShortsUrlWithFragment ==
    \E r \in Reqs :
       /\ variant = "flask"
       /\ req[r].url = <<"https://", "www.", "youtube.com/shorts/",
                         "BBBBBBBBBBB", "#", "t=1">>
       /\ req[r].video_id = "BBBBBBBBBBB"
       /\ req[r].pc = "list"

InvalidUrlAnswer(resp) == resp.status = 400 /\ resp.error = "Invalid YouTube URL"

\* C13 as claimed: the serverless handler resolves every supported input for
\* identifier X as the Flask service does: the request is not answered
\* 'Invalid YouTube URL' and its cache key is X, as for the bare token X.
C13_ServerlessExtractsAsFlask ==
    [][\A r \in Reqs : \A X \in VideoIds :
          ( /\ BeginStep(r) /\ variant = "serverless"
            /\ req'[r].url \in SupportedFor(X) )
          => /\ ~InvalidUrlAnswer(req'[r].response)
             /\ req'[r].video_id = X
             /\ req'[r].video_id = extract_video_id("flask", req'[r].url)
      ]_vars

\* input that names no video: no pattern of the service matches it, or what
\* stands in the place of the identifier is not 11 characters long
Malformed(v, url) ==
    \/ extract_video_id(v, url) = None
    \/ Len(extract_video_id(v, url)) # 11

\* C14 as claimed: a request with malformed input is answered 400 'Invalid
\* YouTube URL' in the step that takes it, with no upstream call and the
\* cache as it was.
C14_MalformedRejected ==
    [][\A r \in Reqs :
          ( /\ BeginStep(r) /\ req'[r].url \in Urls
            /\ Malformed(variant, req'[r].url) )
          => /\ req'[r].pc = "done"
             /\ InvalidUrlAnswer(req'[r].response)
             /\ req'[r].video_id = None
             /\ req'[r].calls = 0
             /\ transcript_cache' = transcript_cache
      ]_vars

(***************************************************************************)
(* Failure responses, under SpecErrors                                     *)
(***************************************************************************)
Failed(rq) == rq.pc = "done" /\ rq.response.status # 200

\* the error that left fetch_transcript_with_retry: the one the last upstream
\* call raised, or the NoTranscriptFound the function raises itself
EscapedKind(rq) == IF rq.raised = None THEN "NoTranscriptFound" ELSE rq.raised

\* C15: a failed request has one status, given by its error kind: no url or
\* a url that names no video, 400; TranscriptsDisabled, NoTranscriptFound
\* and VideoUnavailable, 404; RequestBlocked and YouTubeRequestFailed, 429,
\* and only after max_retries + 1 attempts that all failed retryably; any
\* other error, 500 (among them the body the Flask service cannot parse).
C15_StatusByErrorKind ==
    \A r \in Reqs :
       Failed(req[r])
       => LET rq     == req[r]
              status == rq.response.status
              kind   == EscapedKind(rq)
          IN  /\ status \in {400, 404, 429, 500}
              /\ rq.video_id = None
                 => /\ rq.calls = 0
                    /\ status = IF variant = "flask" /\ rq.url = NotJson
                                THEN 500 ELSE 400
              /\ rq.video_id # None
                 => /\ kind \in {"TranscriptsDisabled", "NoTranscriptFound"}
                       <=> ( /\ status = 404
                             /\ rq.response.error = "No captions available" )
                    /\ kind = "VideoUnavailable"
                       <=> ( /\ status = 404
                             /\ rq.response.error = "Video unavailable" )
                    /\ kind \in {"RequestBlocked", "YouTubeRequestFailed"}
                       <=> status = 429
                    /\ kind \in Unclassified <=> status = 500
              /\ status = 429
                 => /\ rq.failures = max_retries + 1
                    /\ rq.attempt = max_retries
                    /\ rq.response.error_type = kind

\* the retry bound was exhausted by YouTubeRequestFailed in the Flask service
W15_RateLimitedAfterAllAttempts ==
    \E r \in Reqs :
       /\ variant = "flask" /\ Failed(req[r])
       /\ req[r].response.status = 429
       /\ req[r].raised = "YouTubeRequestFailed"
       /\ req[r].failures = max_retries + 1
       /\ req[r].slept = <<1, 2, 4>>

\* C16: a failure answered after the identifier was extracted (404, 429, 500
\* from the fetch) carries that identifier as videoId; a failure answer is
\* without videoId only when the request ended before or in the extraction,
\* with no upstream call made.
C16_FailuresCarryVideoId ==
    \A r \in Reqs :
       Failed(req[r])
       => LET rq == req[r]
          IN  /\ rq.video_id # None
                 => /\ rq.response.videoId = rq.video_id
                    /\ rq.video_id = extract_video_id(variant, rq.url)
                    /\ rq.response.status \in {404, 429, 500}
              /\ rq.calls > 0 \/ rq.attempt > 0 => rq.video_id # None
              /\ rq.response.videoId = None
                 => /\ rq.video_id = None
                    /\ rq.calls = 0 /\ rq.attempt = 0
                    /\ \/ rq.url \in {NoUrl, NotJson}
                       \/ extract_video_id(variant, rq.url) = None

\* an unclassified error of the serverless handler answered 500 with the id
W16_ServerErrorWithVideoId ==
    \E r \in Reqs :
       /\ variant = "serverless" /\ Failed(req[r])
       /\ req[r].response.status = 500
       /\ req[r].response.videoId = "AAAAAAAAAAA"
       /\ req[r].raised = "TypeError"

(***************************************************************************)
(* The result of a successful fetch, under SpecFetch                       *)
(***************************************************************************)
\* snippet texts, one of them with a space of its own
SomeTexts == {"a", "b", "c d"}

RECURSIVE TextsLen(_)
TextsLen(texts) ==
    IF texts = <<>> THEN 0 ELSE Len(Head(texts)) + TextsLen(Tail(texts))

\* out is texts in order with one separator between neighbours and none at
\* either end: it has the length for that, starts with the first text and
\* goes on, after one space, with the rest
RECURSIVE Spaced(_, _)
Spaced(texts, out) ==
    IF texts = <<>> THEN out = ""
    ELSE /\ Len(out) = TextsLen(texts) + Len(texts) - 1
         /\ \E rest \in {Join(Tail(texts))} :
               /\ Spaced(Tail(texts), rest)
               /\ out = IF Tail(texts) = <<>> THEN Head(texts)
                        ELSE Head(texts) \o " " \o rest

\* C17: the transcript of a fresh answer is the snippet texts of the fetch in
\* their order with exactly one space between consecutive snippets, n - 1
\* separators for n snippets and none for one or no snippet, and its language
\* is the language code of the track that was selected and fetched.
C17_JoinedInOrder ==
    [][/\ \A texts \in SeqsUpTo(SomeTexts, 3) : Spaced(texts, Join(texts))
       /\ Join(<<"a", "b", "c d">>) = "a b c d"
       /\ Join(<<"c d", "a">>) = "c d a"
       /\ \A r \in Reqs :
             (req[r].pc \in {"fetch", "direct"} /\ Fresh(req'[r].response))
             => /\ req'[r].response.transcript = Join(req'[r].fetched)
                /\ Spaced(req'[r].fetched, req'[r].response.transcript)
                /\ req[r].pc = "fetch"
                   => req'[r].response.language =
                         req[r].transcript.language_code
                /\ transcript_cache'[req'[r].video_id].data.transcript =
                      req'[r].response.transcript
      ]_vars

\* two snippets of a British English track, selected and fetched, were joined
W17_TwoSnippetsJoined ==
    \E r \in Reqs :
       /\ req[r].pc = "done" /\ Fresh(req[r].response)
       /\ req[r].fetched = <<"a", "b">>
       /\ req[r].response.transcript = "a b"
       /\ req[r].response.language = "en-GB"
       /\ variant = "serverless"

(***************************************************************************)
(* The cache after a fresh fetch, under Spec                               *)
(***************************************************************************)
\* C18: the step that answers a request for identifier k with a fresh result
\* leaves in the cache exactly one entry under k: its data is that result
\* (cached = false), its timestamp the time of the store; an entry that was
\* there for k, expired or not, is replaced; the other entries are as before.
C18_FreshFetchStores ==
    [][\A r \in Reqs :
          (req[r].pc \in {"fetch", "direct"} /\ Fresh(req'[r].response))
          => LET k    == req[r].video_id
                 resp == req'[r].response
             IN  /\ k # None /\ resp.videoId = k
                 /\ k \in DOMAIN transcript_cache'
                 /\ Ok(transcript_cache'[k].data) = resp
                 /\ ~transcript_cache'[k].data.cached
                 /\ transcript_cache'[k].timestamp = now
                 /\ DOMAIN transcript_cache' = DOMAIN transcript_cache \cup {k}
                 /\ \A j \in DOMAIN transcript_cache :
                       j # k => transcript_cache'[j] = transcript_cache[j]
      ]_vars

\* an entry that had expired was replaced by the result of a new fetch, next
\* to the entry of the other video
W18_ExpiredEntryReplaced ==
    \E r \in Reqs :
       /\ req[r].pc = "done" /\ Fresh(req[r].response)
       /\ now = CACHE_TTL
       /\ req[r].video_id \in DOMAIN transcript_cache
       /\ transcript_cache[req[r].video_id].timestamp = CACHE_TTL
       /\ \E j \in DOMAIN transcript_cache :
             j # req[r].video_id /\ transcript_cache[j].timestamp = 0

(***************************************************************************)
(* The cache under requests served side by side, under SpecConcurrent      *)
(***************************************************************************)
\* an entry under k is a whole result of a fetch for k, as it was answered
\* fresh, with a timestamp the clock has shown by time t
SoundEntry(k, entry, t) ==
    /\ entry.data.videoId = k
    /\ ~entry.data.cached
    /\ \E s \in FewSnippets, l \in Languages :
          entry.data = FreshResult(k, Join(s), l)
    /\ entry.timestamp \in Instants /\ entry.timestamp <= t

\* the cache changes only by one request assigning, under its own identifier,
\* the result it built from its own fetch with the time it read for it
OneWrite(r) ==
    /\ req[r].pc = "store" /\ req'[r].pc = "done"
    /\ req[r].video_id # None
    /\ req[r].result =
          FreshResult(req[r].video_id, Join(req[r].fetched),
                      req[r].result.language)
    /\ DOMAIN transcript_cache' = DOMAIN transcript_cache \cup {req[r].video_id}
    /\ transcript_cache'[req[r].video_id] =
          [data |-> req[r].result, timestamp |-> req[r].stamp]
    /\ \A j \in DOMAIN transcript_cache :
          j # req[r].video_id => transcript_cache'[j] = transcript_cache[j]
    /\ req'[r].response = Ok(req[r].result)

\* C19: whatever the interleaving of the requests, every entry of the cache
\* under key k is the whole result of one successful fetch for k (videoId k,
\* cached = false) with the timestamp of its write; entries change only by
\* such a write, the later write for a key replacing the earlier.
C19_CacheNeverCorrupted ==
    [][/\ \A k \in DOMAIN transcript_cache' :
             SoundEntry(k, transcript_cache'[k], now')
       /\ transcript_cache' # transcript_cache => \E r \in Reqs : OneWrite(r)
      ]_vars

\* both requests fetched the same uncached video, got different transcripts
\* and are about to write
W19_TwoWritersOneKey ==
    /\ req[1].pc = "store" /\ req[2].pc = "store"
    /\ req[1].video_id = req[2].video_id
    /\ req[1].result # req[2].result
    /\ req[1].video_id \notin DOMAIN transcript_cache
    /\ req[1].stamp # req[2].stamp

(***************************************************************************)
(* The download strategies, under SpecDownload                             *)
(***************************************************************************)
FixedOrder ==
    <<"PO Token + Visitor Data", "Cookies File", "iOS Client", "TV Embedded",
      "Mobile Web", "Android TestSuite", "Web Client">>

\* the strategies of FixedOrder the configuration of run y allows, in order
Allowed(y) ==
    LET Ready(name) ==
           /\ name = "PO Token + Visitor Data" => y.po_token /\ y.visitor_data
           /\ name = "Cookies File" => y.cookies
    IN  SelectSeq(FixedOrder, Ready)

IsPrefix(s, t) == Len(s) <= Len(t) /\ s = SubSeq(t, 1, Len(s))

FailedRun(kind) == kind \in {"timeout", "CalledProcessError"}

\* C20: the strategies are tried in the order token (only with both
\* YT_PO_TOKEN and YT_VISITOR_DATA), cookies (only if the file exists), iOS,
\* TV embedded, mobile web, Android testsuite, web; each at most once, each
\* only after all before it failed or timed out; the first success ends the
\* loop; after the last failure the process exits with status 1 and nothing
\* is tried again.
C20_StrategiesInFixedOrder ==
    [][LET y == yt'
       IN  /\ y.pc # "start"
              => /\ IsPrefix(y.tried, Allowed(y))
                 /\ y.pc = "loop" => y.strategies = Allowed(y)
           /\ NoDup(y.tried)
           /\ Len(y.outcomes) = Len(y.tried)
           /\ \A i \in 1..(Len(y.outcomes) - 1) : FailedRun(y.outcomes[i])
           /\ y.pc = "downloaded"
              <=> (y.exit = -1 /\ y.outcomes # <<>>
                     /\ y.outcomes[Len(y.outcomes)] = "ok")
           /\ ( /\ y.tried # <<>> /\ y.tried = Allowed(y)
                /\ FailedRun(y.outcomes[Len(y.outcomes)]) )
              => y.pc = "exited" /\ y.exit = 1
           /\ yt.pc = "downloaded" => y.tried = yt.tried
           /\ yt.pc = "exited" => y = yt
           /\ y.tried # yt.tried
              => /\ yt.pc = "loop"
                 /\ Len(y.tried) = Len(yt.tried) + 1
                 /\ \A i \in 1..Len(yt.outcomes) : FailedRun(yt.outcomes[i])
      ]_vars

\* all seven strategies were tried and failed, the last by a timeout
W20_AllSevenExhausted ==
    /\ yt.pc = "exited" /\ yt.exit = 1
    /\ yt.tried = FixedOrder
    /\ yt.outcomes[7] = "timeout"
    /\ yt.outcomes[1] = "CalledProcessError"

\* the stderr of a failed run says the video is unavailable or private
SaysUnavailable(stderr) == "unavailable" \in stderr \/ "private" \in stderr

\* C21 as claimed: a strategy that fails with an error output saying the
\* video is unavailable or private is the last one tried: the run ends in
\* that step with exit status 1.
C21_UnavailableShortCircuits ==
    [][( /\ yt.pc = "loop" /\ yt'.tried # yt.tried
         /\ yt'.outcomes[Len(yt'.outcomes)] = "CalledProcessError"
         /\ SaysUnavailable(yt'.last_error.stderr) )
       => yt'.pc = "exited" /\ yt'.exit = 1
      ]_vars

(***************************************************************************)
(* Expiry, under SpecCache                                                 *)
(***************************************************************************)
Expired(k, t) ==
    k \in DOMAIN transcript_cache /\ t - transcript_cache[k].timestamp >= CACHE_TTL

\* C22: a lookup, and in particular one that misses on an expired entry, and
\* the passing of time leave the cache as it is; an entry changes only by a
\* store under its key and leaves only by a clear, which empties the cache
\* whatever the ages; the health probe and the clear report the number of
\* entries held, the expired ones counted.
C22_LazyExpiry ==
    [][/\ \A r \in Reqs :
             BeginStep(r)
             => /\ transcript_cache' = transcript_cache
                /\ Expired(req'[r].video_id, now)
                   => /\ req'[r].pc = "list"
                      /\ Expired(req'[r].video_id, now')
       /\ now' # now => transcript_cache' = transcript_cache
       /\ \A k \in DOMAIN transcript_cache :
             /\ k \notin DOMAIN transcript_cache'
                => /\ transcript_cache' = EmptyCache
                   /\ cleared' = Cardinality(DOMAIN transcript_cache)
             /\ (k \in DOMAIN transcript_cache'
                   /\ transcript_cache'[k] # transcript_cache[k])
                => \E r \in Reqs :
                      /\ req[r].video_id = k /\ Fresh(req'[r].response)
                      /\ req[r].pc \in {"fetch", "direct"}
       /\ health' # health
          => /\ health' = Cardinality(DOMAIN transcript_cache)
             /\ transcript_cache' = transcript_cache
       /\ cleared' # cleared
          => /\ cleared' = Cardinality(DOMAIN transcript_cache)
             /\ transcript_cache' = EmptyCache
      ]_vars

\* the probe reported two entries when both had expired, and a request for
\* one of them has missed and is fetching
W22_ExpiredEntriesCounted ==
    /\ health = 2
    /\ DOMAIN transcript_cache = VideoIds
    /\ \A k \in VideoIds : Expired(k, now)
    /\ \E r \in Reqs : req[r].pc = "list" /\ Expired(req[r].video_id, now)

(***************************************************************************)
(* Backoff, under SpecFetch                                                *)
(***************************************************************************)
\* the delays in seconds after the failed attempts 0, 1, 2, 3
Schedule == <<1, 2, 4, 8>>

\* C23: the delay after the failed attempt n (from 0) is min(1 * 2^n, 10)
\* seconds: 1, 2, 4, 8 for n = 0..3; the delays of one request never
\* decrease and none is longer than 10 seconds.
C23_DelaySchedule ==
    /\ \A n \in 0..(max_retries + 3) :
          /\ Delay(n) = IF n < 4 THEN Schedule[n + 1] ELSE 10
          /\ Delay(n) <= Delay(n + 1) /\ Delay(n) <= 10
    /\ \A r \in Reqs :
          LET slept == req[r].slept
          IN  /\ Len(slept) <= Len(Schedule)
              /\ \A i \in 1..Len(slept) :
                    /\ slept[i] = Schedule[i]
                    /\ slept[i] <= 10
                    /\ i > 1 => slept[i - 1] <= slept[i]
              /\ req[r].pc = "sleep"
                 => /\ Len(slept) = req[r].attempt + 1
                    /\ slept[Len(slept)] = Schedule[req[r].attempt + 1]

\* a request is in the delay after its fourth failed attempt
W23_FourthDelay ==
    \E r \in Reqs :
       /\ req[r].pc = "sleep" /\ req[r].attempt = 3
       /\ req[r].slept = <<1, 2, 4, 8>>

\* C24 as claimed: in the serverless fetch_transcript_with_retry every delay
\* is followed by another attempt: a request whose attempts all failed
\* retryably has slept once less than it has attempted, and not after the
\* last attempt.
C24_DelaysOnlyBetweenAttempts ==
    \A r \in Reqs :
       variant = "serverless"
       => /\ req[r].pc = "sleep" => req[r].attempt < max_retries
          /\ (req[r].pc = "done" /\ req[r].failures = req[r].attempt + 1)
             => Len(req[r].slept) = req[r].failures - 1

(***************************************************************************)
(* Frame conditions of the cache, under Spec                               *)
(***************************************************************************)
\* C25: serving a request from the cache changes nothing in the cache: the
\* stored result keeps cached = false and the entry keeps its timestamp, so
\* an entry is served only while less than CACHE_TTL has passed since the
\* fetch that stored it, however often it was served in between.
C25_HitLeavesCache ==
    [][/\ \A r \in Reqs :
             LET k == req'[r].video_id
             IN  (BeginStep(r) /\ Served(req'[r].response))
                 => /\ transcript_cache' = transcript_cache
                    /\ ~transcript_cache'[k].data.cached
                    /\ req'[r].response = Ok([transcript_cache[k].data
                                                 EXCEPT !.cached = TRUE])
                    /\ now' - transcript_cache'[k].timestamp < CACHE_TTL
       /\ \A k \in DOMAIN transcript_cache' :
             /\ ~transcript_cache'[k].data.cached
             /\ (k \notin DOMAIN transcript_cache
                    \/ transcript_cache'[k] # transcript_cache[k])
                => /\ transcript_cache'[k].timestamp = now
                   /\ \E r \in Reqs :
                         /\ req[r].pc \in {"fetch", "direct"}
                         /\ req'[r].video_id = k /\ Fresh(req'[r].response)
      ]_vars

\* a request was served from an entry stored at time 0, at the last instant
\* of its life, and the entry is as the fetch left it
W25_ServedEntryIntact ==
    \E r \in Reqs :
       LET k == req[r].video_id
       IN  /\ req[r].pc = "done" /\ Served(req[r].response)
           /\ k \in DOMAIN transcript_cache
           /\ transcript_cache[k].timestamp = 0 /\ now = CACHE_TTL - 1
           /\ ~transcript_cache[k].data.cached
           /\ req[r].response = Hit(transcript_cache[k].data)

\* C26: a request that ends in a failure (400, 404, 429 or 500) wrote
\* nothing to the cache: every step of a request but the one that answers
\* with a fresh result leaves the cache as it was, an expired entry for the
\* same identifier included; every entry is the result of a request that
\* answered 200.
C26_ErrorsNeverCached ==
    [][/\ \A r \in Reqs :
             (req'[r] # req[r]
                /\ ~(req[r].pc \in {"fetch", "direct"} /\ Fresh(req'[r].response)))
             => transcript_cache' = transcript_cache
       /\ \A r \in Reqs :
             (req'[r] # req[r] /\ Failed(req'[r]))
             => /\ req'[r].response.status \in {400, 404, 429, 500}
                /\ transcript_cache' = transcript_cache
       /\ \A k \in DOMAIN transcript_cache' :
             (k \notin DOMAIN transcript_cache
                 \/ transcript_cache'[k] # transcript_cache[k])
             => \E r \in Reqs :
                   /\ req'[r].pc = "done" /\ req'[r].response.status = 200
                   /\ req'[r].response = Ok(transcript_cache'[k].data)
                   /\ req'[r].video_id = k
      ]_vars

\* a request failed with 429 after its retries while the cache holds an
\* expired entry for its identifier
W26_FailureKeepsExpiredEntry ==
    \E r \in Reqs :
       /\ Failed(req[r]) /\ req[r].response.status = 429
       /\ req[r].failures > 0
       /\ req[r].video_id \in DOMAIN transcript_cache
       /\ Expired(req[r].video_id, now)

(***************************************************************************)
(* Termination, under SpecFetchFair                                        *)
(***************************************************************************)
\* the request is past its cache lookup and has not answered yet
Fetching(rq) == rq.pc \in {"list", "fetch", "direct", "sleep"}

\* C27: whatever the upstream answers, a request makes at most
\* max_retries + 1 = 4 attempts of the retry loop, and it ends: with the
\* result (200) or with an error response, never without either.
C27_BoundedRetryTerminates ==
    /\ [](\A r \in Reqs :
             /\ req[r].attempt + 1 <= max_retries + 1
             /\ req[r].attempt + 1 <= 4
             /\ req[r].failures <= req[r].attempt + 1
             /\ Len(req[r].slept) <= max_retries + 1
             /\ req[r].pc = "done"
                => /\ req[r].response # NoResponse
                   /\ \/ Fresh(req[r].response) \/ Served(req[r].response)
                      \/ req[r].response.status \in {400, 404, 429, 500})
    /\ \A r \in Serial : Fetching(req[r]) ~> (req[r].pc = "done")

\* a request ended with an error after four attempts that all failed, in
\* either service
W27_GaveUpAfterFourAttempts ==
    \E r \in Reqs :
       /\ req[r].pc = "done" /\ req[r].attempt + 1 = 4
       /\ req[r].failures = 4
       /\ req[r].response.status = 429
       /\ req[r].response # NoResponse

(***************************************************************************)
(* Mixed error sequences, under SpecFetch                                  *)
(***************************************************************************)
\* the error that ends the attempt of slot r in this step, None if no error
\* leaves the attempt: an error the upstream call raised, or the
\* NoTranscriptFound of a listing without a track
AttemptError(r) ==
    IF req[r].pc \notin EscapesAt(variant) \/ req'[r].calls # req[r].calls + 1
    THEN None
    ELSE IF req'[r].raised # None THEN req'[r].raised
    ELSE IF req'[r].pc = "done" /\ Failed(req'[r]) THEN "NoTranscriptFound"
    ELSE None

\* C28: the error of the last attempt alone decides the answer: after k < 4
\* attempts that failed retryably, a terminal error ends the request with
\* 404 after exactly k delays and an unclassified error ends it with 500
\* after k delays; the earlier retryable failures never make it a 429.
C28_LastErrorDecides ==
    [][\A r \in Reqs :
          LET e    == AttemptError(r)
              k    == req[r].failures
              resp == req'[r].response
          IN  /\ (e # None /\ IsTerminal(e))
                 => /\ req'[r].pc = "done" /\ resp.status = 404
                    /\ k < 4 /\ k = req[r].attempt
                    /\ req'[r].slept = req[r].slept /\ Len(req'[r].slept) = k
              /\ e \in Unclassified
                 => /\ req'[r].pc = "done" /\ resp.status = 500
                    /\ resp.error_type = e
                    /\ req'[r].slept = req[r].slept /\ Len(req'[r].slept) = k
              /\ (e # None /\ ~IsRetryable(e))
                 => ~(req'[r].pc = "done" /\ resp.status = 429)
              /\ (req'[r] # req[r] /\ req'[r].pc = "done" /\ resp.status = 429)
                 => /\ IsRetryable(req'[r].raised)
                    /\ req'[r].failures = max_retries + 1
      ]_vars

\* the Flask request ended 404 by a terminal error on its fourth attempt,
\* after three attempts that failed retryably and three delays
W28_TerminalAfterThreeRetries ==
    \E r \in Reqs :
       /\ variant = "flask" /\ Failed(req[r])
       /\ req[r].failures = 3 /\ req[r].slept = <<1, 2, 4>>
       /\ req[r].last_exception \in Retryable
       /\ req[r].raised \in Terminal /\ req[r].response.status = 404

(***************************************************************************)
(* clear-cache beside storing requests, under SpecClear                    *)
(***************************************************************************)
\* C29 as claimed: a clear-cache that runs while requests store results
\* reports the number of entries it removed: no entry is written between
\* the reading of the size and the emptying of the mapping.
C29_ClearCountsWhatItRemoves ==
    [][/\ clearing.pc = "clear" => transcript_cache' = transcript_cache
                                      \/ transcript_cache' = EmptyCache
       /\ clearing.pc = "clear" /\ clearing'.pc = "idle"
          => /\ transcript_cache' = EmptyCache
             /\ cleared' = Cardinality(DOMAIN transcript_cache
                                          \ DOMAIN transcript_cache')
      ]_vars

(***************************************************************************)
(* The Instagram service, under SpecInstagram                              *)
(***************************************************************************)
Steps == <<"apify", "download", "deepgram">>

\* the request ended with this status
Ended(status) == ig.pc = "done" /\ ig.response.status_code = status

\* C30: the external steps run in the order Apify, download, Deepgram and
\* the request stops at the first step that fails: without both keys 500
\* and no external call; Apify status outside {200, 201}: 500; empty
\* dataset: 404; no videoUrl: 400; download not 200 or Deepgram not 200:
\* 500.  Deepgram is called only after the download returned 200, and the
\* 404 and 400 reach the client as raised, not as 500.
C30_InstagramSteps ==
    /\ IsPrefix(ig.calls, Steps)
    /\ Len(ig.calls) >= 1
       => /\ ig.APIFY_TOKEN /\ ig.DEEPGRAM_KEY
          /\ ig.pc # "apify"
    /\ Len(ig.calls) >= 2
       => /\ ig.apify.status_code \in {200, 201}
          /\ ~ig.apify.data.null /\ ig.apify.data.items # <<>>
          /\ ig.apify.data.items[1].videoUrl \in VideoUrls
    /\ Len(ig.calls) >= 3 => ig.video.status_code = 200
    /\ (ig.pc = "done" /\ (~ig.APIFY_TOKEN \/ ~ig.DEEPGRAM_KEY))
       => Ended(500) /\ ig.calls = <<>>
    /\ (ig.pc = "done" /\ ig.apify # NoReply /\ ig.calls = <<"apify">>)
       => /\ ig.apify.status_code \notin {200, 201} => Ended(500)
          /\ ( /\ ig.apify.status_code \in {200, 201}
               /\ (ig.apify.data.null \/ ig.apify.data.items = <<>>) )
             => Ended(404)
          /\ ( /\ ig.apify.status_code \in {200, 201}
               /\ ~ig.apify.data.null /\ ig.apify.data.items # <<>>
               /\ ig.apify.data.items[1].videoUrl \notin VideoUrls )
             => Ended(400)
    /\ (ig.pc = "done" /\ ig.calls = <<"apify", "download">>)
       => Ended(500)
    /\ (ig.pc = "done" /\ ig.calls = Steps /\ ig.dg # NoReply
          /\ ig.dg.status_code # 200)
       => Ended(500)
    /\ (ig.pc = "done" /\ ig.response.status_code # 200)
       => /\ ig.raised # NoException
          /\ ig.response.status_code \in {400, 404, 500}
          /\ ig.raised.type = "HTTPException"
             => /\ ig.response.status_code = ig.raised.status_code
                /\ ig.response.detail = ig.raised.detail
          /\ ig.raised.type # "HTTPException" => Ended(500)
    /\ Ended(200)
       => /\ ig.calls = Steps /\ ig.raised = NoException
          /\ ig.video.status_code = 200 /\ ig.dg.status_code = 200

\* a post without a video was answered 400 after the Apify call alone, which
\* had returned 201
W30_NoVideoIs400 ==
    /\ Ended(400) /\ ig.calls = <<"apify">>
    /\ ig.apify.status_code = 201
    /\ ig.raised = HTTPException(400, "No video found - post may be image/carousel")
    /\ ig.response.detail = "No video found - post may be image/carousel"

=============================================================================
